---- MODULE Spec2Model ----
(***************************************************************************)
(* Expense Tracker Web App (src/app.py): a Streamlit script over one       *)
(* SQLite file.  The script is executed top to bottom on every             *)
(* interaction of every browser session; the database is shared by all     *)
(* sessions, the session state (the logged-in user) is per session.        *)
(* Each SQL statement (with its commit) is one atomic step; the steps of   *)
(* different sessions interleave.                                          *)
(*                                                                         *)
(* Python's None / an absent optional value is the empty sequence <<>>,    *)
(* a present value v is <<v>>.  Strings that the code formats or parses    *)
(* (dates, query parameters) are sequences of one-character strings.       *)
(***************************************************************************)
EXTENDS Integers, Sequences, FiniteSets, TLC

VARIABLES
    columns,        \* column names of table transactions (PRAGMA table_info)
    transactions,   \* rows of table transactions, in rowid order
    users,          \* rows of table users, in rowid order
    user,           \* st.session_state["user"] of each session
    page,           \* what the session's browser shows (the last render)
    pc,             \* position of the session's current script run
    click,          \* the button whose click started the current run
    seen,           \* the run's local `columns` (line 37)
    user_id,        \* the run's local `user_id` (line 135)
    last,           \* what the run's last store call was given and returned
    registered,     \* history: the (username, password) pairs registered
    firstRender     \* history: the first orphan reassignment that ran

vars == <<columns, transactions, users, user, page, pc, click, seen, user_id,
          last, registered, firstRender>>

----------------------------------------------------------------------------
(* Bounds of the model *)

MaxTx == 2          \* rows the transactions table may hold
MaxLegacy == 1      \* rows a pre-existing (legacy) table may hold

Sessions == {"s1", "s2"}
Usernames == {"alice", "bob"}
Passwords == {"pw1", "pw2"}

None == <<>>
Some(v) == <<v>>

(* The values the widgets of lines 147-152 deliver to one Add click. *)
AddInputs ==
    { [date |-> [year |-> 2024, month |-> 3, day |-> 15], type |-> "Income",
       category |-> "Salary", description |-> "pay", amount |-> 100],
      [date |-> [year |-> 2023, month |-> 11, day |-> 2], type |-> "Expense",
       category |-> "Food", description |-> "lunch", amount |-> 40],
      [date |-> [year |-> 2024, month |-> 11, day |-> 20], type |-> "Expense",
       category |-> "Food", description |-> "dinner", amount |-> 30] }

(* The values of the two filter select boxes (lines 165-174). *)
FilterMonths == {None, Some(3), Some(11)}
FilterYears == {None, Some(2024)}

----------------------------------------------------------------------------
(* String formatting and parsing *)

DigitChars == <<"0", "1", "2", "3", "4", "5", "6", "7", "8", "9">>

Digit(n) == DigitChars[n + 1]

DigitValue(c) == CHOOSE n \in 0..9 : DigitChars[n + 1] = c

IsDigit(c) == \E n \in 0..9 : DigitChars[n + 1] = c

RECURSIVE DecStr(_)
(* str(n) for a natural number n *)
DecStr(n) == IF n < 10 THEN <<Digit(n)>>
             ELSE DecStr(n \div 10) \o <<Digit(n % 10)>>

RECURSIVE ZeroPad(_, _)
(* the format specs 0wd: zeros on the left up to width w, never truncating *)
ZeroPad(s, w) == IF Len(s) >= w THEN s ELSE ZeroPad(<<"0">> \o s, w)

RECURSIVE ParseInt(_)
ParseInt(s) == IF s = <<>> THEN 0
               ELSE 10 * ParseInt(SubSeq(s, 1, Len(s) - 1)) + DigitValue(s[Len(s)])

(* str(date_val): date.isoformat(), "%04d-%02d-%02d" *)
DateStr(d) == ZeroPad(DecStr(d.year), 4) \o <<"-">> \o ZeroPad(DecStr(d.month), 2)
              \o <<"-">> \o ZeroPad(DecStr(d.day), 2)

(* SQLite's date parser accepts YYYY-MM-DD; anything else makes strftime NULL *)
IsIsoDate(s) ==
    /\ Len(s) = 10
    /\ \A i \in {1, 2, 3, 4, 6, 7, 9, 10} : IsDigit(s[i])
    /\ s[5] = "-" /\ s[8] = "-"
    /\ ParseInt(SubSeq(s, 6, 7)) \in 1..12
    /\ ParseInt(SubSeq(s, 9, 10)) \in 1..31

ParseDate(s) == [year |-> ParseInt(SubSeq(s, 1, 4)),
                 month |-> ParseInt(SubSeq(s, 6, 7)),
                 day |-> ParseInt(SubSeq(s, 9, 10))]

(* strftime(fmt, date) of SQLite: None (NULL) for a string it cannot parse *)
Strftime(fmt, s) ==
    IF ~IsIsoDate(s) THEN None
    ELSE IF fmt = "%m" THEN Some(ZeroPad(DecStr(ParseDate(s).month), 2))
    ELSE Some(ZeroPad(DecStr(ParseDate(s).year), 4))

(* pd.to_datetime on the Date column *)
ToDatetime(s) == ParseDate(s)

(* truth value of an optional integer: `if month:` *)
Truthy(opt) == opt /= None /\ opt[1] /= 0

----------------------------------------------------------------------------
(* The store: tables users and transactions *)

BaseColumns == {"id", "date", "type", "category", "description", "amount"}

(* hashlib.sha256(password.encode()).hexdigest(): a digest, one per password *)
hash_password(password) == <<"sha256", password>>

RECURSIVE MaxId(_)
MaxId(rows) == IF rows = <<>> THEN 0
               ELSE LET m == MaxId(Tail(rows))
                    IN  IF Head(rows).id > m THEN Head(rows).id ELSE m

(* INTEGER PRIMARY KEY AUTOINCREMENT; no row is ever deleted *)
NextRowId(rows) == MaxId(rows) + 1

(* cursor.fetchone(): the first row of the result, or None *)
FetchOne(rows) == IF rows = <<>> THEN None ELSE Some(Head(rows))

(* the UNIQUE constraint on users.username *)
UsernameTaken(username) == \E i \in DOMAIN users : users[i].username = username

(* mutant: the username column without its UNIQUE constraint *)
register_user_NoUnique(username, password) ==
    [ok |-> TRUE,
     users |-> Append(users, [id |-> NextRowId(users), username |-> username,
                               password |-> hash_password(password)])]

(* register_user: the value returned and the users table afterwards *)
register_user(username, password) ==
    IF UsernameTaken(username)
    THEN [ok |-> FALSE, users |-> users]
    ELSE [ok |-> TRUE,
          users |-> Append(users, [id |-> NextRowId(users),
                                    username |-> username,
                                    password |-> hash_password(password)])]

(* mutant: the query without its password condition *)
login_user_AnyPassword(username, password) ==
    LET Match(r) == r.username = username
    IN  FetchOne(SelectSeq(users, Match))

(* login_user: the row fetched, or None *)
login_user(username, password) ==
    LET Match(r) == r.username = username /\ r.password = hash_password(password)
    IN  FetchOne(SelectSeq(users, Match))

(* ALTER TABLE transactions ADD COLUMN user_id INTEGER DEFAULT 0 *)
AddUserIdColumn(rows) ==
    [i \in DOMAIN rows |->
        [c \in (DOMAIN rows[i]) \cup {"user_id"} |->
            IF c = "user_id" THEN 0 ELSE rows[i][c]]]

(* mutant: the INSERT without the user_id column, which then defaults to 0 *)
add_transaction_NoOwner(uid, in) ==
    Append(transactions,
           [id |-> NextRowId(transactions), user_id |-> 0,
            date |-> DateStr(in.date), type |-> in.type,
            category |-> in.category, description |-> in.description,
            amount |-> in.amount])

(* mutant: category and description swapped in the VALUES tuple *)
add_transaction_Swapped(uid, in) ==
    Append(transactions,
           [id |-> NextRowId(transactions), user_id |-> uid,
            date |-> DateStr(in.date), type |-> in.type,
            category |-> in.description, description |-> in.category,
            amount |-> in.amount])

(* add_transaction: the transactions table after the INSERT *)
add_transaction(uid, in) ==
    Append(transactions,
           [id |-> NextRowId(transactions), user_id |-> uid,
            date |-> DateStr(in.date), type |-> in.type,
            category |-> in.category, description |-> in.description,
            amount |-> in.amount])

(* mutant: the month parameter formatted without its zero padding *)
MonthParam_NoPad(month) == DecStr(month)

(* f"{int(month):02d}" and str(year), the two query parameters *)
MonthParam(month) == ZeroPad(DecStr(month), 2)
YearParam(year) == DecStr(year)

(* lines 77-90 on a given table: the DataFrame returned, one record per row *)
QueryTransactions(table, uid, month, year) ==
    LET Where(r) ==
            /\ r.user_id = uid
            /\ Truthy(month) => Strftime("%m", r.date) = Some(MonthParam(month[1]))
            /\ Truthy(year) => Strftime("%Y", r.date) = Some(YearParam(year[1]))
        rows == SelectSeq(table, Where)
    IN  [i \in DOMAIN rows |->
            [Date |-> ToDatetime(rows[i].date), Type |-> rows[i].type,
             Category |-> rows[i].category,
             Description |-> rows[i].description,
             Amount |-> rows[i].amount]]

(* get_transactions on the table as it is *)
get_transactions(uid, month, year) ==
    QueryTransactions(transactions, uid, month, year)

(* mutant: the UPDATE without its WHERE clause *)
ReassignRows_All(rows, uid) ==
    [i \in DOMAIN rows |-> [rows[i] EXCEPT !.user_id = uid]]

(* mutant: the UPDATE with WHERE user_id != ? instead of WHERE user_id = 0 *)
ReassignRows_Others(rows, uid) ==
    [i \in DOMAIN rows |->
        IF rows[i].user_id /= uid THEN [rows[i] EXCEPT !.user_id = uid]
        ELSE rows[i]]

(* UPDATE transactions SET user_id=? WHERE user_id=0 *)
ReassignRows(rows, uid) ==
    [i \in DOMAIN rows |->
        IF rows[i].user_id = 0 THEN [rows[i] EXCEPT !.user_id = uid]
        ELSE rows[i]]

RECURSIVE SumAmount(_)
(* Series.sum() of the Amount column *)
SumAmount(df) == IF df = <<>> THEN 0 ELSE Head(df).Amount + SumAmount(Tail(df))

(* mutant: the sum taken over the whole DataFrame, the type mask dropped *)
TotalOfType_AllRows(df, t) == SumAmount(df)

(* df[df['Type'] == t]['Amount'].sum() *)
TotalOfType(df, t) ==
    LET IsType(r) == r.Type = t
    IN  SumAmount(SelectSeq(df, IsType))

(* lines 177-184: the two metrics, shown only for a non-empty DataFrame *)
Metrics(df) ==
    IF df /= <<>>
    THEN Some([total_income |-> TotalOfType(df, "Income"),
               total_expense |-> TotalOfType(df, "Expense")])
    ELSE None

----------------------------------------------------------------------------
(* The state before the first script run *)

LegacyInputs ==
    { in \in AddInputs : in.description \in {"pay", "lunch"} }

(* a row of the table as lines 24-31 create it: no user_id column *)
LegacyRow(i, in) ==
    [id |-> i, date |-> DateStr(in.date), type |-> in.type,
     category |-> in.category, description |-> in.description,
     amount |-> in.amount]

LegacyTables ==
    UNION { { [i \in 1..n |-> LegacyRow(i, f[i])] : f \in [1..n -> LegacyInputs] }
            : n \in 0..MaxLegacy }

NoCall == [op |-> "none"]

Init ==
    /\ columns = BaseColumns
    /\ transactions \in LegacyTables
    /\ users = <<>>
    /\ user = [s \in Sessions |-> None]
    /\ page = [s \in Sessions |-> "blank"]
    /\ pc = [s \in Sessions |-> "idle"]
    /\ click = [s \in Sessions |-> "none"]
    /\ seen = [s \in Sessions |-> {}]
    /\ user_id = [s \in Sessions |-> None]
    /\ last = [s \in Sessions |-> NoCall]
    /\ registered = {}
    /\ firstRender = None

----------------------------------------------------------------------------
(* One script run of a session, statement by statement *)

(* the buttons a rendered page offers *)
Buttons(p) ==
    IF p = "login" THEN {"Login", "Register"}
    ELSE IF p = "main" THEN {"Add Transaction", "Logout"}
    ELSE {}

(* mutant: the upgrade never found necessary *)
UserIdMissing_Never(cols) == FALSE

(* line 38: "user_id" not in columns *)
UserIdMissing(cols) == "user_id" \notin cols

(* A widget interaction (or a page load) starts a run: lines 10-38.  The
   tables exist, so both CREATE TABLE IF NOT EXISTS change nothing. *)
StartRun(s, c) ==
    /\ pc[s] = "idle"
    /\ c \in Buttons(page[s]) \cup {"none"}
    /\ c = "Add Transaction" => Len(transactions) < MaxTx
    /\ click' = [click EXCEPT ![s] = c]
    /\ seen' = [seen EXCEPT ![s] = columns]
    /\ pc' = [pc EXCEPT ![s] = IF UserIdMissing(columns) THEN "upgrade" ELSE "render"]
    /\ last' = [last EXCEPT ![s] = NoCall]
    /\ UNCHANGED <<columns, transactions, users, user, page, user_id, registered,
                   firstRender>>

(* the run is over: its locals and the button state are gone *)
EndRun(s, view) ==
    /\ pc' = [pc EXCEPT ![s] = "idle"]
    /\ page' = [page EXCEPT ![s] = view]
    /\ click' = [click EXCEPT ![s] = "none"]
    /\ seen' = [seen EXCEPT ![s] = {}]
    /\ user_id' = [user_id EXCEPT ![s] = None]

(* an uncaught exception ends the run; the page shows the traceback *)
Raise(s, exc) ==
    /\ EndRun(s, "error")
    /\ last' = [last EXCEPT ![s] = [op |-> exc]]

(* lines 39-41: ALTER TABLE; a column added meanwhile by another run makes
   it fail with "duplicate column name" *)
UpgradeDb(s) ==
    /\ pc[s] = "upgrade"
    /\ IF "user_id" \in columns
       THEN /\ Raise(s, "duplicate column name: user_id")
            /\ UNCHANGED <<columns, transactions>>
       ELSE /\ columns' = columns \cup {"user_id"}
            /\ transactions' = AddUserIdColumn(transactions)
            /\ pc' = [pc EXCEPT ![s] = "render"]
            /\ UNCHANGED <<page, click, seen, user_id, last>>
    /\ UNCHANGED <<users, user, registered, firstRender>>

(* lines 106-128 with neither button pressed in this run *)
RenderLogin(s) ==
    /\ pc[s] = "render" /\ user[s] = None
    /\ click[s] \notin {"Login", "Register"}
    /\ EndRun(s, "login")
    /\ UNCHANGED <<columns, transactions, users, user, last, registered,
                   firstRender>>

(* mutant: the session user set whatever login_user returned *)
LoginButton_NoCheck(s, username, password) ==
    /\ pc[s] = "render" /\ user[s] = None
    /\ click[s] = "Login"
    /\ LET row == login_user(username, password)
       IN  /\ user' = [user EXCEPT ![s] = Some(username)]
           /\ last' = [last EXCEPT ![s] = [op |-> "login", username |-> username,
                                           password |-> password, row |-> row]]
    /\ EndRun(s, "login")
    /\ UNCHANGED <<columns, transactions, users, registered, firstRender>>

(* lines 113-119 *)
LoginButton(s, username, password) ==
    /\ pc[s] = "render" /\ user[s] = None
    /\ click[s] = "Login"
    /\ LET row == login_user(username, password)
       IN  /\ user' = [user EXCEPT ![s] = IF row /= None THEN Some(username) ELSE @]
           /\ last' = [last EXCEPT ![s] = [op |-> "login", username |-> username,
                                           password |-> password, row |-> row]]
    /\ EndRun(s, "login")
    /\ UNCHANGED <<columns, transactions, users, registered, firstRender>>

(* lines 124-128 *)
RegisterButton(s, username, password) ==
    /\ pc[s] = "render" /\ user[s] = None
    /\ click[s] = "Register"
    /\ LET r == register_user(username, password)
       IN  /\ users' = r.users
           /\ last' = [last EXCEPT ![s] = [op |-> "register", username |-> username,
                                           password |-> password, ok |-> r.ok]]
           /\ registered' = IF r.ok
                            THEN registered \cup {[username |-> username,
                                                   password |-> password]}
                            ELSE registered
    /\ EndRun(s, "login")
    /\ UNCHANGED <<columns, transactions, user, firstRender>>

(* lines 134-135: SELECT id FROM users WHERE username=?; fetchone()[0] *)
LookupUserId(s) ==
    /\ pc[s] = "render" /\ user[s] /= None
    /\ LET Match(r) == r.username = user[s][1]
           row == FetchOne(SelectSeq(users, Match))
       IN  IF row = None
           THEN Raise(s, "TypeError")
           ELSE /\ user_id' = [user_id EXCEPT ![s] = Some(row[1].id)]
                /\ pc' = [pc EXCEPT ![s] = "reassign"]
                /\ UNCHANGED <<page, click, seen, last>>
    /\ UNCHANGED <<columns, transactions, users, user, registered, firstRender>>

(* SQLite rejects a statement that names a column the table lacks *)
NoSuchColumn(col) == col \notin columns

(* ids of the rows an UPDATE ... WHERE user_id=0 matches *)
Orphans(rows) == { rows[i].id : i \in { j \in DOMAIN rows : rows[j].user_id = 0 } }

(* lines 138-139 *)
ReassignOrphans(s) ==
    /\ pc[s] = "reassign"
    /\ IF NoSuchColumn("user_id")
       THEN /\ Raise(s, "no such column: user_id")
            /\ UNCHANGED <<transactions, firstRender>>
       ELSE /\ transactions' = ReassignRows(transactions, user_id[s][1])
            /\ last' = [last EXCEPT ![s] =
                          [op |-> "reassign",
                           rowcount |-> Cardinality(Orphans(transactions))]]
            /\ firstRender' =
                  IF firstRender = None
                  THEN Some([user_id |-> user_id[s][1],
                             orphans |-> Orphans(transactions)])
                  ELSE firstRender
            /\ pc' = [pc EXCEPT ![s] =
                        IF click[s] = "Add Transaction" THEN "add" ELSE "list"]
            /\ UNCHANGED <<page, click, seen, user_id>>
    /\ UNCHANGED <<columns, users, user, registered>>

(* lines 154-156 *)
AddTransactionButton(s, in) ==
    /\ pc[s] = "add"
    /\ Len(transactions) < MaxTx
    /\ IF NoSuchColumn("user_id")
       THEN /\ Raise(s, "no such column: user_id")
            /\ UNCHANGED transactions
       ELSE /\ transactions' = add_transaction(user_id[s][1], in)
            /\ last' = [last EXCEPT ![s] = [op |-> "add", user_id |-> user_id[s][1],
                                           in |-> in]]
            /\ pc' = [pc EXCEPT ![s] = "list"]
            /\ UNCHANGED <<page, click, seen, user_id>>
    /\ UNCHANGED <<columns, users, user, registered, firstRender>>

(* lines 162-188: the filtered table, the two metrics, and the Logout button *)
ListTransactions(s, month, year) ==
    /\ pc[s] = "list"
    /\ IF NoSuchColumn("user_id")
       THEN /\ Raise(s, "no such column: user_id")
            /\ UNCHANGED user
       ELSE LET df == get_transactions(user_id[s][1], month, year)
            IN  /\ last' = [last EXCEPT ![s] =
                              [op |-> "list", user_id |-> user_id[s][1],
                               month |-> month, year |-> year, df |-> df,
                               metrics |-> Metrics(df),
                               added |-> click[s] = "Add Transaction"]]
                /\ user' = [user EXCEPT ![s] = IF click[s] = "Logout" THEN None ELSE @]
                /\ EndRun(s, "main")
    /\ UNCHANGED <<columns, transactions, users, registered, firstRender>>

(* what one session may do next, the widget values drawn from `inputs` *)
Step(s, inputs) ==
    \/ \E c \in {"none", "Login", "Register", "Add Transaction", "Logout"} :
           StartRun(s, c)
    \/ UpgradeDb(s)
    \/ RenderLogin(s)
    \/ \E u \in Usernames, p \in inputs.passwords : LoginButton(s, u, p)
    \/ \E u \in Usernames, p \in inputs.passwords : RegisterButton(s, u, p)
    \/ LookupUserId(s)
    \/ ReassignOrphans(s)
    \/ \E in \in inputs.adds : AddTransactionButton(s, in)
    \/ \E m \in inputs.months, y \in inputs.years : ListTransactions(s, m, y)

(* Two browser sessions side by side, each with few widget values *)
FewInputs ==
    [passwords |-> {"pw1"},
     adds |-> { in \in AddInputs : in.description = "lunch" },
     months |-> {None}, years |-> {None}]

Next == \E s \in Sessions : Step(s, FewInputs)

Spec == Init /\ [][Next]_vars

(* One browser session with all the widget values *)
AllInputs ==
    [passwords |-> Passwords, adds |-> AddInputs,
     months |-> FilterMonths, years |-> FilterYears]

NextOne == Step("s1", AllInputs)

SpecOne == Init /\ [][NextOne]_vars

----------------------------------------------------------------------------
(* Claims about the user store *)

(* the step of session s that handles a click of button b *)
Handles(s, b, at) == pc[s] = at /\ click[s] = b /\ pc'[s] /= pc[s]

UniqueUsernames ==
    \A i, j \in DOMAIN users :
        users[i].username = users[j].username => i = j

(* C1: a Register click with a username no row has returns True and appends
   exactly one row (that username, the digest of that password); with a
   username some row has, it returns False and leaves the users table as it
   was, whatever the password; no two rows ever share a username. *)
C1_RegisterOncePerUsername ==
    /\ []UniqueUsernames
    /\ [][\A s \in Sessions :
            (Handles(s, "Register", "render") /\ user[s] = None) =>
                /\ last'[s].op = "register"
                /\ IF \E i \in DOMAIN users : users[i].username = last'[s].username
                   THEN last'[s].ok = FALSE /\ users' = users
                   ELSE /\ last'[s].ok = TRUE
                        /\ Len(users') = Len(users) + 1
                        /\ SubSeq(users', 1, Len(users)) = users
                        /\ users'[Len(users')].username = last'[s].username
                        /\ users'[Len(users')].password
                              = hash_password(last'[s].password)
                        /\ \A i \in DOMAIN users :
                              users[i].id /= users'[Len(users')].id]_vars

(* a second registration of a taken username, with another password, failed *)
C1_Witness ==
    \E s \in Sessions :
        /\ last[s].op = "register"
        /\ last[s].ok = FALSE
        /\ Len(users) = 1
        /\ users[1].username = last[s].username
        /\ users[1].password /= hash_password(last[s].password)

(* C2: login_user(u, p) returns a row exactly when a registration of u with
   a password of the same digest succeeded earlier, and the row is that
   user's; a Login click returns what login_user returns on the store as it
   is and changes neither table. *)
C2_LoginMatchesRegistration ==
    /\ [](\A u \in Usernames, p \in Passwords :
            LET row == login_user(u, p)
            IN  /\ row /= None <=>
                      \E r \in registered :
                          /\ r.username = u
                          /\ hash_password(r.password) = hash_password(p)
                /\ row /= None =>
                      /\ \E i \in DOMAIN users : users[i] = row[1]
                      /\ row[1].username = u)
    /\ [][\A s \in Sessions :
            (Handles(s, "Login", "render") /\ user[s] = None) =>
                /\ last'[s].op = "login"
                /\ last'[s].row = login_user(last'[s].username, last'[s].password)
                /\ users' = users
                /\ transactions' = transactions]_vars

(* a wrong password for a registered username was answered with no row *)
C2_Witness ==
    \E s \in Sessions :
        /\ last[s].op = "login"
        /\ last[s].row = None
        /\ \E r \in registered :
              r.username = last[s].username /\ r.password /= last[s].password

----------------------------------------------------------------------------
(* Claims about the transaction store *)

TwoDigits(n) == <<Digit(n \div 10), Digit(n % 10)>>

FourDigits(n) == <<Digit(n \div 1000), Digit((n \div 100) % 10)>> \o TwoDigits(n % 100)

OwnerIds == 0..(Cardinality(Usernames) + 1)

(* the rows the claimed filter keeps, in table order *)
Selected(owner, month, year) ==
    LET Keep(r) ==
            /\ r.user_id = owner
            /\ month /= None => SubSeq(r.date, 6, 7) = TwoDigits(month[1])
            /\ year /= None => SubSeq(r.date, 1, 4) = FourDigits(year[1])
    IN  SelectSeq(transactions, Keep)

(* df holds exactly the given table rows, in order *)
SameRows(df, rows) ==
    /\ Len(df) = Len(rows)
    /\ \A i \in DOMAIN rows :
          /\ DateStr(df[i].Date) = rows[i].date
          /\ df[i].Type = rows[i].type
          /\ df[i].Category = rows[i].category
          /\ df[i].Description = rows[i].description
          /\ df[i].Amount = rows[i].amount

(* C3: whatever the store holds, for the owner and the optional month and
   year it is given, get_transactions returns exactly the rows of that owner
   whose stored date has that two-digit month and that four-digit year (each
   filter only when given): all the owner's rows with neither filter, and
   never a row of another owner. *)
C3_ListFiltersByOwnerMonthYear ==
    \A s \in Sessions :
        last[s].op = "list" =>
            /\ SameRows(last[s].df,
                        Selected(last[s].user_id, last[s].month, last[s].year))
            /\ (last[s].month = None /\ last[s].year = None) =>
                  Len(last[s].df)
                      = Cardinality({ i \in DOMAIN transactions :
                                        transactions[i].user_id = last[s].user_id })

(* a list filtered by month and year returned some, not all, of the owner's rows *)
C3_Witness ==
    \E s \in Sessions :
        /\ last[s].op = "list"
        /\ last[s].month /= None /\ last[s].year /= None
        /\ last[s].df /= <<>>
        /\ Len(last[s].df) < Len(Selected(last[s].user_id, None, None))

(* C4: the orphan reassignment changes only rows whose owner is the sentinel
   0, and only their owner; run again at once, for the same or another
   user, it changes no row; no step ever changes a row that has an owner. *)
C4_ReassignIdempotent ==
    /\ [](~NoSuchColumn("user_id") =>
            \A u, v \in OwnerIds \ {0} :
                LET once == ReassignRows(transactions, u)
                IN  /\ Len(once) = Len(transactions)
                    /\ \A i \in DOMAIN transactions :
                          /\ transactions[i].user_id /= 0 => once[i] = transactions[i]
                          /\ once[i] = [transactions[i] EXCEPT !.user_id = once[i].user_id]
                    /\ ReassignRows(once, v) = once)
    /\ [][\A i \in DOMAIN transactions :
            (~NoSuchColumn("user_id") /\ transactions[i].user_id /= 0) =>
                transactions'[i] = transactions[i]]_vars

(* after a reassignment that claimed rows, another user's reassignment
   matched no row *)
C4_Witness ==
    \E s \in Sessions :
        /\ last[s].op = "reassign"
        /\ last[s].rowcount = 0
        /\ firstRender /= None
        /\ firstRender[1].orphans /= {}
        /\ user_id[s] /= Some(firstRender[1].user_id)

(* C5: an Add click inserts exactly one row with a fresh id, the session's
   owner and the given field values, leaves every other row and the users
   table as they were, and the row is in the owner's unfiltered list. *)
C5_AddInsertsOneRow ==
    [][\A s \in Sessions :
         Handles(s, "Add Transaction", "add") =>
            LET n == Len(transactions)
                new == transactions'[n + 1]
                in == last'[s].in
            IN  /\ last'[s].op = "add"
                /\ Len(transactions') = n + 1
                /\ SubSeq(transactions', 1, n) = transactions
                /\ \A i \in 1..n : transactions[i].id /= new.id
                /\ new.user_id = user_id[s][1]
                /\ last'[s].user_id = user_id[s][1]
                /\ IsIsoDate(new.date) /\ ParseDate(new.date) = in.date
                /\ new.type = in.type /\ new.category = in.category
                /\ new.description = in.description /\ new.amount = in.amount
                /\ users' = users
                /\ \E i \in DOMAIN QueryTransactions(transactions', new.user_id, None, None) :
                      LET got == QueryTransactions(transactions', new.user_id, None, None)[i]
                      IN  /\ got.Date = in.date /\ got.Type = in.type
                          /\ got.Category = in.category
                          /\ got.Description = in.description
                          /\ got.Amount = in.amount]_vars

(* the unfiltered list of the run that added a row to a non-empty table *)
C5_Witness ==
    \E s \in Sessions :
        /\ last[s].op = "list" /\ last[s].added
        /\ last[s].month = None /\ last[s].year = None
        /\ Len(transactions) >= 2
        /\ Len(last[s].df) >= 1

(* the owner of a row; a row of a table without the column has none yet *)
OwnerOf(r) == IF "user_id" \in DOMAIN r THEN r.user_id ELSE 0

(* C6: no step deletes a row or changes its id, date, type, category,
   description or amount; a row's owner changes only from the sentinel 0 to
   the id of a user, hence at most once. *)
C6_RowsImmutable ==
    [][/\ Len(transactions') >= Len(transactions)
       /\ \A i \in DOMAIN transactions :
             /\ \A c \in BaseColumns : transactions'[i][c] = transactions[i][c]
             /\ OwnerOf(transactions'[i]) /= OwnerOf(transactions[i]) =>
                   /\ OwnerOf(transactions[i]) = 0
                   /\ \E j \in DOMAIN users :
                         users[j].id = OwnerOf(transactions'[i])]_vars

(* a legacy row has been claimed and a row has been added since *)
C6_Witness ==
    /\ firstRender /= None
    /\ firstRender[1].orphans /= {}
    /\ Len(transactions) > Cardinality(firstRender[1].orphans)
    /\ \A i \in DOMAIN transactions : transactions[i].user_id /= 0

----------------------------------------------------------------------------
(* Claims about the legacy migration, the totals and the session *)

(* C7: a run adds the owner column, with the sentinel 0 in every existing
   row, exactly when the table lacks it; when the table has it the run
   changes no row, so no owner is ever reset to 0; and no statement that
   names the column runs on a table without it. *)
C7_UpgradeBeforeQueries ==
    /\ [](\A s \in Sessions :
            /\ pc[s] \in {"reassign", "add", "list"} => ~NoSuchColumn("user_id")
            /\ last[s].op /= "no such column: user_id")
    /\ [][/\ columns' /= columns =>
                /\ NoSuchColumn("user_id")
                /\ columns' = columns \cup {"user_id"}
                /\ Len(transactions') = Len(transactions)
                /\ \A i \in DOMAIN transactions :
                      /\ transactions'[i].user_id = 0
                      /\ \A c \in BaseColumns :
                            transactions'[i][c] = transactions[i][c]
          /\ \A s \in Sessions :
                /\ (pc[s] = "idle" /\ pc'[s] /= "idle") =>
                      (pc'[s] = "upgrade" <=> NoSuchColumn("user_id"))
                /\ (pc[s] = "upgrade" /\ pc'[s] /= "upgrade"
                    /\ NoSuchColumn("user_id")) =>
                      /\ columns' = columns \cup {"user_id"}
                      /\ pc'[s] = "render"
          /\ ~NoSuchColumn("user_id") =>
                \A i \in DOMAIN transactions :
                    transactions'[i].user_id = 0 => transactions[i].user_id = 0]_vars

(* a run that found the column skipped the upgrade, and a claimed legacy
   row still has its owner *)
C7_Witness ==
    \E s \in Sessions :
        /\ pc[s] = "render"
        /\ "user_id" \in seen[s]
        /\ firstRender /= None
        /\ \E i \in DOMAIN transactions :
              /\ transactions[i].id \in firstRender[1].orphans
              /\ transactions[i].user_id = firstRender[1].user_id

RECURSIVE SumOfType(_, _, _)
(* the sum of the amounts of the first n rows of df that have type t *)
SumOfType(df, t, n) ==
    IF n = 0 THEN 0
    ELSE SumOfType(df, t, n - 1) + (IF df[n].Type = t THEN df[n].Amount ELSE 0)

(* C8, as claimed: every retrieved set, the empty one too, yields the total
   income (sum of the Income amounts), the total expense (sum of the
   Expense amounts) and the net, their difference; zero for the empty set. *)
C8_TotalsForEverySet ==
    \A s \in Sessions :
        last[s].op = "list" =>
            /\ last[s].metrics /= None
            /\ last[s].metrics[1].total_income
                  = SumOfType(last[s].df, "Income", Len(last[s].df))
            /\ last[s].metrics[1].total_expense
                  = SumOfType(last[s].df, "Expense", Len(last[s].df))
            /\ "net" \in DOMAIN last[s].metrics[1]
            /\ last[s].metrics[1].net
                  = last[s].metrics[1].total_income - last[s].metrics[1].total_expense

(* C8, amended: a non-empty retrieved set yields exactly two figures, the
   total income and the total expense, each the sum of the amounts of its
   type (no net); an empty set yields no totals at all; no error is raised. *)
C8_TotalsForNonEmptySet ==
    \A s \in Sessions :
        /\ page[s] /= "error"
        /\ last[s].op = "list" =>
              IF last[s].df = <<>>
              THEN last[s].metrics = None
              ELSE last[s].metrics =
                      Some([total_income |->
                                SumOfType(last[s].df, "Income", Len(last[s].df)),
                            total_expense |->
                                SumOfType(last[s].df, "Expense", Len(last[s].df))])

(* totals of a retrieved set that holds an Income and an Expense row *)
C8_Witness ==
    \E s \in Sessions :
        /\ last[s].op = "list"
        /\ \E i, j \in DOMAIN last[s].df :
              last[s].df[i].Type = "Income" /\ last[s].df[j].Type = "Expense"
        /\ last[s].metrics /= None

(* C9: once the first logged-in render has run its reassignment, no row has
   the sentinel owner 0, every row that was an orphan then is owned by that
   render's user, and a row leaves the sentinel only in that render. *)
C9_OrphansGoToFirstRender ==
    /\ [](firstRender /= None =>
            \A i \in DOMAIN transactions :
                /\ transactions[i].user_id /= 0
                /\ transactions[i].id \in firstRender[1].orphans =>
                      transactions[i].user_id = firstRender[1].user_id)
    /\ [][\A i \in DOMAIN transactions :
            (OwnerOf(transactions[i]) = 0 /\ OwnerOf(transactions'[i]) /= 0) =>
                /\ firstRender = None
                /\ firstRender' /= None
                /\ transactions[i].id \in firstRender'[1].orphans
                /\ transactions'[i].user_id = firstRender'[1].user_id]_vars

(* another user rendered the logged-in page later and lists none of the
   rows the first render claimed *)
C9_Witness ==
    /\ firstRender /= None
    /\ firstRender[1].orphans /= {}
    /\ \E s \in Sessions :
          /\ last[s].op = "list"
          /\ last[s].user_id /= firstRender[1].user_id
          /\ last[s].df = <<>>

(* the id of the users row with the given username *)
IdOf(username) ==
    (CHOOSE i \in DOMAIN users : users[i].username = username)

(* C10: the session user is None or the username of a users row, set only
   by a Login click whose login_user returned that user's row and reset
   only by a Logout click, which always resets it; the id lookup finds a
   row; the reassignment, add and list run only for a logged-in user and
   with that user's id. *)
C10_SessionUser ==
    /\ [](\A s \in Sessions :
            /\ user[s] /= None => UsernameTaken(user[s][1])
            /\ last[s].op /= "TypeError"
            /\ pc[s] \in {"reassign", "add", "list"} =>
                  /\ user[s] /= None
                  /\ user_id[s] = Some(users[IdOf(user[s][1])].id))
    /\ [][\A s \in Sessions :
            /\ user'[s] /= user[s] =>
                  \/ /\ user'[s] = None
                     /\ Handles(s, "Logout", "list")
                  \/ /\ user[s] = None
                     /\ Handles(s, "Login", "render")
                     /\ last'[s].row /= None
                     /\ last'[s].row[1].username = user'[s][1]
                     /\ last'[s].row = login_user(user'[s][1], last'[s].password)
            /\ (Handles(s, "Logout", "list") /\ last'[s].op = "list") =>
                  user'[s] = None
            /\ last'[s] /= last[s] /\ last'[s].op \in {"add", "list"} =>
                  last'[s].user_id = users[IdOf(user[s][1])].id]_vars
    /\ [][(transactions' /= transactions /\ ~NoSuchColumn("user_id")) =>
            \E s \in Sessions :
                /\ pc[s] \in {"reassign", "add"} /\ pc'[s] /= pc[s]
                /\ user[s] /= None
                /\ \A i \in DOMAIN transactions' :
                      (i \notin DOMAIN transactions
                       \/ transactions'[i] /= transactions[i]) =>
                          transactions'[i].user_id
                              = users[IdOf(user[s][1])].id]_vars

(* a user logged in, rendered the page and logged out again *)
C10_Witness ==
    \E s \in Sessions :
        /\ user[s] = None
        /\ page[s] = "main"
        /\ last[s].op = "list"
        /\ \E t \in Sessions \ {s} : user[t] /= None /\ pc[t] = "list"

====
